---- MODULE Spec2Model ----
(***************************************************************************)
(* Tic-tac-toe Store (src/main.js): a move log persisted in localStorage   *)
(* under one key, the derived views `game` and `stats`, the mutations      *)
(* playerMove / reset / newRound, and the controller handlers of init()    *)
(* that forward the UI gestures to them.                                   *)
(***************************************************************************)
EXTENDS Integers, Sequences, FiniteSets, TLC

\* ------------------------------------------------------------------ bounds

\* Cap on the number of archived game records (currentRoundGames + allGames).
MaxGames == 2

\* Cap on the length of the move log built by direct calls of playerMove.
MaxDirectMoves == 10

\* The squares 1..TabSquares are the ones clicked when two tabs share the key.
TabSquares == 2

\* ------------------------------------------------------- program constants

\* JS null, as a value of a parsed object (status.winner when nobody has a line).
null == [isNull |-> TRUE]

player1 == [id |-> 1, name |-> "Player 1", iconClass |-> "fa-x", colorClass |-> "turquoise"]

player2 == [id |-> 2, name |-> "Player 2", iconClass |-> "fa-o", colorClass |-> "yellow"]

\* The players "config"; JS index i is TLA+ index i + 1.
players == <<player1, player2>>

\* The patterns with the anti-diagonal mistyped.
winningPatternsSlip ==
  << <<1, 2, 3>>, <<1, 5, 9>>, <<1, 4, 7>>, <<2, 5, 8>>,
     <<3, 5, 8>>, <<3, 6, 9>>, <<4, 5, 6>>, <<7, 8, 9>> >>

winningPatterns ==
  << <<1, 2, 3>>, <<1, 5, 9>>, <<1, 4, 7>>, <<2, 5, 8>>,
     <<3, 5, 7>>, <<3, 6, 9>>, <<4, 5, 6>>, <<7, 8, 9>> >>

initialState ==
  [currentGameMoves |-> <<>>,
   history |-> [currentRoundGames |-> <<>>, allGames |-> <<>>]]

\* The ids of the grid's square elements, as numbers (+square.id).
squareIds == 1..9

\* Key to use for the localStorage state object (new Store("game-state-key", ...)).
storageKey == "game-state-key"

\* ---------------------------------------------------------------- state

VARIABLES
  localStorage,   \* window.localStorage: a function from the keys present to their texts
  rendered,       \* the (game, stats) pair the View rendered last; null before init()
  gesture,        \* the handler that ran last; "none" before init()
  entry,          \* the game view that handler read on entry; null if it read none
  effects,        \* what that handler did to storage and listeners, in order
  defaultObject,  \* the content of the module-level initialState object
  tabs            \* the handler in progress in each tab, when two tabs share the key

vars == <<localStorage, rendered, gesture, entry, effects, defaultObject, tabs>>

\* ------------------------------------------------------ (de)serialisation
\* A JSON text is modelled by its token structure: an object is the sequence
\* of its <<key, value>> pairs in insertion order, an array the sequence of its
\* elements, null the one-token text <<"null">>; numbers, strings and booleans
\* stand for themselves.

jsonNull == <<"null">>

stringifyPlayer(pl) ==
  << <<"id", pl.id>>, <<"name", pl.name>>,
     <<"iconClass", pl.iconClass>>, <<"colorClass", pl.colorClass>> >>

parsePlayer(t) ==
  [id |-> t[1][2], name |-> t[2][2], iconClass |-> t[3][2], colorClass |-> t[4][2]]

stringifyMove(move) ==
  << <<"squareId", move.squareId>>, <<"player", stringifyPlayer(move.player)>> >>

parseMove(t) == [squareId |-> t[1][2], player |-> parsePlayer(t[2][2])]

stringifyMoves(moves) == [i \in 1..Len(moves) |-> stringifyMove(moves[i])]

parseMoves(t) == [i \in 1..Len(t) |-> parseMove(t[i])]

stringifyStatus(status) ==
  << <<"isComplete", status.isComplete>>,
     <<"winner", IF status.winner = null THEN jsonNull
                 ELSE stringifyPlayer(status.winner)>> >>

parseStatus(t) ==
  [isComplete |-> t[1][2],
   winner     |-> IF t[2][2] = jsonNull THEN null ELSE parsePlayer(t[2][2])]

stringifyGames(games) ==
  [i \in 1..Len(games) |->
     << <<"moves", stringifyMoves(games[i].moves)>>,
        <<"status", stringifyStatus(games[i].status)>> >>]

parseGames(t) ==
  [i \in 1..Len(t) |->
     [moves |-> parseMoves(t[i][1][2]), status |-> parseStatus(t[i][2][2])]]

\* JSON.stringify of a state object: the text kept in localStorage.
JSONstringify(state) ==
  << <<"currentGameMoves", stringifyMoves(state.currentGameMoves)>>,
     <<"history",
       << <<"currentRoundGames", stringifyGames(state.history.currentRoundGames)>>,
          <<"allGames", stringifyGames(state.history.allGames)>> >> >> >>

\* JSON.parse of such a text.
JSONparse(item) ==
  [currentGameMoves |-> parseMoves(item[1][2]),
   history |-> [currentRoundGames |-> parseGames(item[2][2][1][2]),
                allGames          |-> parseGames(item[2][2][2][2])]]

\* Store.#getState: the parsed item, or the default when the key is absent.
getState(storage) ==
  IF storageKey \in DOMAIN storage THEN JSONparse(storage[storageKey]) ELSE initialState

\* structuredClone: a deep copy, equal in value to its argument.
structuredClone(value) == value

\* --------------------------------------------------------- derived views

\* Array.prototype.includes
includes(seq, v) == \E i \in 1..Len(seq) : seq[i] = v

\* state.currentGameMoves.filter(move => move.player.id === player.id)
\*                       .map(move => move.squareId)
selectedSquareIds(state, player) ==
  LET mine == SelectSeq(state.currentGameMoves,
                        LAMBDA move : move.player.id = player.id)
  IN  [i \in 1..Len(mine) |-> mine[i].squareId]

\* pattern.every(v => selectedSquareIds.includes(v))
patternEvery(pattern, ids) == \A k \in 1..Len(pattern) : includes(ids, pattern[k])

\* The inner loop of the winner search: patterns k.. for one player.
RECURSIVE patternLoop(_, _, _, _)
patternLoop(ids, player, k, winner) ==
  IF k > Len(winningPatterns) THEN winner
  ELSE patternLoop(ids, player, k + 1,
                   IF patternEvery(winningPatterns[k], ids) THEN player ELSE winner)

\* A winner search that looks only at the player who moved last.
playerLoopLastMover(state, p, winner) ==
  LET n == Len(state.currentGameMoves)
  IN  IF n = 0 THEN winner
      ELSE patternLoop(selectedSquareIds(state, players[((n - 1) % 2) + 1]),
                       players[((n - 1) % 2) + 1], 1, winner)

\* The outer loop of the winner search: players p.. in configuration order.
RECURSIVE playerLoop(_, _, _)
playerLoop(state, p, winner) ==
  IF p > Len(players) THEN winner
  ELSE playerLoop(state, p + 1,
                  patternLoop(selectedSquareIds(state, players[p]), players[p], 1, winner))

\* A game view that is complete only when somebody has won.
gameOfWinnerOnly(state) ==
  LET winner == playerLoop(state, 1, null)
  IN  [moves         |-> state.currentGameMoves,
       currentPlayer |-> players[(Len(state.currentGameMoves) % 2) + 1],
       status        |-> [isComplete |-> winner # null, winner |-> winner]]

\* The body of get game(), given the state that #getState returned.
gameOf(state) ==
  LET winner == playerLoop(state, 1, null)
  IN  [moves         |-> state.currentGameMoves,
       currentPlayer |-> players[(Len(state.currentGameMoves) % 2) + 1],
       status        |-> [isComplete |-> (winner # null \/ Len(state.currentGameMoves) = 9),
                          winner     |-> winner]]

\* get game(), evaluated on the content of localStorage.
game(storage) == gameOf(getState(storage))

\* A comparison of the archived winner with the player object itself: an
\* object read back by JSON.parse is never the configured one.
winnerIsByReference(rec, player) == FALSE

\* game.status.winner?.id === player.id
winnerIs(rec, player) ==
  IF rec.status.winner = null THEN FALSE ELSE rec.status.winner.id = player.id

\* Stats whose tie filter tests the winner against undefined: a winner read
\* back from storage is null or an object, so no record passes.
statsOfTiesUndefined(state) ==
      [playerWithStats |->
         [i \in 1..Len(players) |->
            [id |-> players[i].id, name |-> players[i].name,
             iconClass |-> players[i].iconClass, colorClass |-> players[i].colorClass,
             wins |-> Len(SelectSeq(state.history.currentRoundGames,
                                    LAMBDA g : winnerIs(g, players[i])))]],
       ties |-> 0]

\* The body of get stats(), given the state that #getState returned.
statsOf(state) ==
      [playerWithStats |->
         [i \in 1..Len(players) |->
            [id |-> players[i].id, name |-> players[i].name,
             iconClass |-> players[i].iconClass, colorClass |-> players[i].colorClass,
             wins |-> Len(SelectSeq(state.history.currentRoundGames,
                                    LAMBDA g : winnerIs(g, players[i])))]],
       ties |-> Len(SelectSeq(state.history.currentRoundGames,
                              LAMBDA g : g.status.winner = null))]

\* get stats(), evaluated on the content of localStorage.
stats(storage) == statsOf(getState(storage))

\* -------------------------------------------------------------- mutations

\* A save that merges: it appends the last move of newState to the log that
\* is in storage at the time of the write.
saveStateMerging(storage, newState) ==
  LET prevState == getState(storage)
      moves     == newState.currentGameMoves
      merged    == IF moves = <<>> THEN newState
                   ELSE [newState EXCEPT !.currentGameMoves =
                           Append(prevState.currentGameMoves, moves[Len(moves)])]
  IN  [k \in DOMAIN storage \cup {storageKey} |->
         IF k = storageKey THEN JSONstringify(merged) ELSE storage[k]]

\* Store.#saveState with an object argument: localStorage after setItem.
saveState(storage, newState) ==
  [k \in DOMAIN storage \cup {storageKey} |->
     IF k = storageKey THEN JSONstringify(newState) ELSE storage[k]]

\* A playerMove that picks the player after the push, by the new move count.
playerMoveAfterPush(storage, squareId) ==
  LET stateClone == structuredClone(getState(storage))
      n          == Len(stateClone.currentGameMoves) + 1
      move       == [squareId |-> squareId, player |-> players[(n % 2) + 1]]
  IN  saveState(storage, [stateClone EXCEPT !.currentGameMoves = Append(@, move)])

\* A playerMove that validates: it leaves storage alone when the square is
\* taken or the game is complete.
playerMoveValidated(storage, squareId) ==
  LET stateClone == structuredClone(getState(storage))
      g          == game(storage)
      move       == [squareId |-> squareId, player |-> g.currentPlayer]
  IN  IF g.status.isComplete
         \/ \E i \in 1..Len(g.moves) : g.moves[i].squareId = squareId
      THEN storage
      ELSE saveState(storage, [stateClone EXCEPT !.currentGameMoves = Append(@, move)])

\* Store.playerMove(squareId): localStorage after the call.
playerMove(storage, squareId) ==
  LET stateClone == structuredClone(getState(storage))
      move       == [squareId |-> squareId, player |-> game(storage).currentPlayer]
  IN  saveState(storage, [stateClone EXCEPT !.currentGameMoves = Append(@, move)])

\* A reset that puts the record at the front of the round (unshift for push).
resetUnshift(storage) ==
  LET stateClone == structuredClone(getState(storage))
      g          == game(storage)
      archived   == IF g.status.isComplete
                    THEN [stateClone EXCEPT !.history.currentRoundGames =
                            <<[moves |-> g.moves, status |-> g.status]>> \o @]
                    ELSE stateClone
  IN  saveState(storage, [archived EXCEPT !.currentGameMoves = <<>>])

\* A reset that falls back to the default state when the game is incomplete.
resetToInitial(storage) ==
  LET stateClone == structuredClone(getState(storage))
      g          == game(storage)
  IN  IF g.status.isComplete
      THEN saveState(storage,
             [stateClone EXCEPT
                !.history.currentRoundGames =
                   Append(@, [moves |-> g.moves, status |-> g.status]),
                !.currentGameMoves = <<>>])
      ELSE saveState(storage, initialState)

\* A reset that archives the game whether or not it is complete.
resetAlways(storage) ==
  LET stateClone == structuredClone(getState(storage))
      g          == game(storage)
      archived   == [stateClone EXCEPT !.history.currentRoundGames =
                       Append(@, [moves |-> g.moves, status |-> g.status])]
  IN  saveState(storage, [archived EXCEPT !.currentGameMoves = <<>>])

\* Store.reset(): localStorage after the call.
reset(storage) ==
  LET stateClone == structuredClone(getState(storage))
      g          == game(storage)
      archived   == IF g.status.isComplete
                    THEN [stateClone EXCEPT !.history.currentRoundGames =
                            Append(@, [moves |-> g.moves, status |-> g.status])]
                    ELSE stateClone
  IN  saveState(storage, [archived EXCEPT !.currentGameMoves = <<>>])

\* A newRound that assigns the round's games to allGames instead of pushing.
newRoundAssign(storage) ==
  LET afterReset == reset(storage)
      stateClone == structuredClone(getState(afterReset))
      pushed     == [stateClone EXCEPT !.history.allGames =
                       stateClone.history.currentRoundGames]
  IN  saveState(afterReset, [pushed EXCEPT !.history.currentRoundGames = <<>>])

\* A newRound that pushes the round's games but does not empty the round.
newRoundKeepsRound(storage) ==
  LET afterReset == reset(storage)
      stateClone == structuredClone(getState(afterReset))
      pushed     == [stateClone EXCEPT !.history.allGames =
                       @ \o stateClone.history.currentRoundGames]
  IN  saveState(afterReset, pushed)

\* Store.newRound(): localStorage after the call.
newRound(storage) ==
  LET afterReset == reset(storage)
      stateClone == structuredClone(getState(afterReset))
      pushed     == [stateClone EXCEPT !.history.allGames =
                       @ \o stateClone.history.currentRoundGames]
  IN  saveState(afterReset, [pushed EXCEPT !.history.currentRoundGames = <<>>])

\* ------------------------------------------- writes and notifications
\* An effect is a setItem, with the storage it leaves, or the dispatch of a
\* statechange event, with the storage its listener reads (store.game and
\* store.stats in view.render).

\* A #saveState that dispatches the event before it writes: the listener
\* reads what was stored before.
saveEffectsDispatchFirst(before, after) ==
  << [kind |-> "statechange", storage |-> before],
     [kind |-> "setItem", storage |-> after] >>

\* Store.#saveState, as effects: setItem first, then dispatchEvent, whose
\* listener runs at once and reads what was just written.
saveEffects(before, after) ==
  << [kind |-> "setItem", storage |-> after],
     [kind |-> "statechange", storage |-> after] >>

\* The effects of Store.playerMove(squareId).
playerMoveEffects(storage, squareId) ==
  saveEffects(storage, playerMove(storage, squareId))

\* The effects of Store.reset().
resetEffects(storage) == saveEffects(storage, reset(storage))

\* A newRound that merges its two writes into one write of the final state.
newRoundEffectsMerged(storage) == saveEffects(storage, newRound(storage))

\* The effects of Store.newRound(): those of the reset() it calls, then those
\* of its own #saveState.
newRoundEffects(storage) ==
  resetEffects(storage) \o saveEffects(reset(storage), newRound(storage))

\* --------------------------------------------- the shared default object
\* #getState returns the initialState object itself while the key is absent,
\* and a fresh object from JSON.parse otherwise; the mutations push onto and
\* assign to stateClone.

\* Which object #getState returns.
getStateRef(storage) ==
  IF storageKey \in DOMAIN storage THEN "parsed" ELSE "initialState"

\* A clone that hands back the object it was given.
structuredCloneRefAlias(ref) == ref

\* Which object structuredClone returns: always a new one.
structuredCloneRef(ref) == "clone"

\* The content of initialState after a mutation has edited its stateClone,
\* taken from storage, into the state it then saved.
defaultAfter(default, storage, saved) ==
  IF structuredCloneRef(getStateRef(storage)) = "initialState"
  THEN getState(saved) ELSE default

\* ------------------------------------------------------------- controller

\* view.render(store.game, store.stats): what the View shows afterwards.
render(storage) ==
  LET state == getState(storage)
  IN  [game |-> gameOf(state), stats |-> statsOf(state)]

\* moves.find(move => move.squareId === +square.id) found a move
existingMove(moves, sq) == \E i \in 1..Len(moves) : moves[i].squareId = sq

\* ------------------------------------------------------ gestures explored

\* The games the players are taken to play, as the squares clicked in order:
\* player 1 completes a line at move 5 and player 2 then moves on (to a line
\* of their own at move 6, or to none); player 2 wins at move 6; a tie.
Scripts ==
  { <<1, 4, 2, 5, 3, 6>>,
    <<1, 4, 2, 5, 3, 7>>,
    <<1, 4, 2, 5, 9, 6>>,
    <<1, 2, 3, 5, 4, 6, 8, 7, 9>> }

\* The squares of a move log, in order.
squaresOf(moves) == [i \in 1..Len(moves) |-> moves[i].squareId]

\* A click the players may make: on an occupied square, or the next square of
\* one of the Scripts.
clickExplored(moves, sq) ==
  LET played == squaresOf(moves)
  IN  \/ includes(played, sq)
      \/ \E s \in Scripts : /\ Len(s) > Len(played)
                            /\ SubSeq(s, 1, Len(played) + 1) = Append(played, sq)

\* The number of archived records held in storage.
archivedCount(state) ==
  Len(state.history.currentRoundGames) + Len(state.history.allGames)

\* A reset or new round that would archive is explored while the history is short.
archiveExplored(state) ==
  gameOf(state).status.isComplete => archivedCount(state) < MaxGames

\* ---------------------------------------------------------------- actions

\* A tab opened on a profile with nothing stored under the key.
Init ==
  /\ localStorage = <<>>
  /\ rendered = null
  /\ gesture = "none"
  /\ entry = null
  /\ effects = <<>>
  /\ defaultObject = initialState
  /\ tabs = <<>>

\* window "load": init() builds the Store and the View and renders once.
Load ==
  /\ gesture = "none"
  /\ gesture' = "load"
  /\ rendered' = render(localStorage)
  /\ effects' = <<>>
  /\ UNCHANGED <<localStorage, entry, defaultObject, tabs>>

\* A click handler without the occupancy check.
SquareClickUnchecked(sq) ==
  /\ gesture # "none"
  /\ gesture' = "click"
  /\ entry' = game(localStorage)
  /\ localStorage' = playerMove(localStorage, sq)
  /\ effects' = playerMoveEffects(localStorage, sq)
  /\ defaultObject' = defaultAfter(defaultObject, localStorage, localStorage')
  /\ rendered' = render(localStorage')
  /\ UNCHANGED tabs

\* view.bindPlayerMoveEvent handler: a click on square sq.
SquareClick(sq) ==
  /\ gesture # "none"
  /\ gesture' = "click"
  /\ LET g == game(localStorage)
     IN  /\ entry' = g
         /\ IF existingMove(g.moves, sq)
            THEN /\ effects' = <<>>
                 /\ UNCHANGED <<localStorage, rendered, defaultObject>>
            ELSE /\ localStorage' = playerMove(localStorage, sq)
                 /\ effects' = playerMoveEffects(localStorage, sq)
                 /\ defaultObject' =
                      defaultAfter(defaultObject, localStorage, localStorage')
                 /\ rendered' = render(effects'[Len(effects')].storage)
  /\ UNCHANGED tabs

\* view.bindGameResetEvent handler.
ResetClick ==
  /\ gesture # "none"
  /\ gesture' = "reset"
  /\ entry' = game(localStorage)
  /\ localStorage' = reset(localStorage)
  /\ effects' = resetEffects(localStorage)
  /\ defaultObject' = defaultAfter(defaultObject, localStorage, localStorage')
  /\ rendered' = render(effects'[Len(effects')].storage)
  /\ UNCHANGED tabs

\* view.bindNewRoundEvent handler.
NewRoundClick ==
  /\ gesture # "none"
  /\ gesture' = "newRound"
  /\ entry' = game(localStorage)
  /\ localStorage' = newRound(localStorage)
  /\ effects' = newRoundEffects(localStorage)
  /\ defaultObject' =
       defaultAfter(defaultAfter(defaultObject, localStorage, reset(localStorage)),
                    reset(localStorage), localStorage')
  /\ rendered' = render(effects'[Len(effects')].storage)
  /\ UNCHANGED tabs

Next ==
  \/ Load
  \/ \E sq \in squareIds :
       clickExplored(getState(localStorage).currentGameMoves, sq) /\ SquareClick(sq)
  \/ archiveExplored(getState(localStorage)) /\ ResetClick
  \/ archiveExplored(getState(localStorage)) /\ NewRoundClick

\* One tab, from empty storage, under any sequence of explored gestures.
Spec == Init /\ [][Next]_vars

\* ------------------------------------------- page load on a persisted game

\* The elements of a set of numbers in increasing order.
RECURSIVE ascending(_)
ascending(S) ==
  IF S = {} THEN <<>>
  ELSE LET m == CHOOSE x \in S : \A y \in S : x <= y
       IN  <<m>> \o ascending(S \ {m})

\* The move log in which player 1 took the squares of xs and player 2 those
\* of os, in turn.
turnsOf(xs, os) ==
  [i \in 1..(Len(xs) + Len(os)) |->
     IF i % 2 = 1 THEN [squareId |-> xs[(i + 1) \div 2], player |-> player1]
     ELSE [squareId |-> os[i \div 2], player |-> player2]]

\* Every position the two players can have reached by alternate clicks on
\* free squares, each player's squares taken in increasing order.
PersistedMoves ==
  { turnsOf(ascending(b[1]), ascending(b[2])) :
      b \in { c \in (SUBSET squareIds) \X (SUBSET squareIds) :
                /\ c[1] \cap c[2] = {}
                /\ Cardinality(c[1]) - Cardinality(c[2]) \in {0, 1} } }

\* A tab opened on a profile where an earlier session left a game behind.
InitLoad ==
  /\ localStorage \in
       { saveState(<<>>, [initialState EXCEPT !.currentGameMoves = m]) :
           m \in PersistedMoves }
  /\ rendered = null
  /\ gesture = "none"
  /\ entry = null
  /\ effects = <<>>
  /\ defaultObject = initialState
  /\ tabs = <<>>

NextLoad == Load

\* The first render of a tab, over every persisted position.
SpecLoad == InitLoad /\ [][NextLoad]_vars

\* ------------------------------------------ playerMove called on the Store
\* A caller other than the click handler calls store.playerMove(squareId)
\* with no check of its own.

\* Arguments explored: the lowest free square, or the square played last.
directExplored(moves, sq) ==
  LET free == squareIds \ { moves[i].squareId : i \in 1..Len(moves) }
  IN  \/ free # {} /\ \A other \in free : sq <= other /\ sq \in free
      \/ moves # <<>> /\ sq = moves[Len(moves)].squareId

\* store.playerMove(sq), the statechange listener rendering after the write.
DirectPlayerMove(sq) ==
  /\ gesture # "none"
  /\ Len(getState(localStorage).currentGameMoves) < MaxDirectMoves
  /\ gesture' = "playerMove"
  /\ entry' = game(localStorage)
  /\ localStorage' = playerMove(localStorage, sq)
  /\ effects' = playerMoveEffects(localStorage, sq)
  /\ defaultObject' = defaultAfter(defaultObject, localStorage, localStorage')
  /\ rendered' = render(effects'[Len(effects')].storage)
  /\ UNCHANGED tabs

NextDirect ==
  \/ Load
  \/ \E sq \in squareIds :
       /\ directExplored(getState(localStorage).currentGameMoves, sq)
       /\ DirectPlayerMove(sq)

\* One tab whose Store receives playerMove calls directly.
SpecDirect == Init /\ [][NextDirect]_vars

\* ------------------------- the gestures of a tab and direct playerMove calls
\* The click, reset and new round handlers of one tab, and a caller that calls
\* store.playerMove(squareId) at any time with no check of its own.

\* The games the clicks may follow: player 1 completes a line at move 5; a tie.
StoreScripts ==
  { <<1, 4, 2, 5, 3>>,
    <<1, 2, 3, 5, 4, 6, 8, 7, 9>> }

\* A click explored, in the first game of the tab: on an occupied square, on
\* the next square of one of the games, or on the lowest free square.
storeClickExplored(state, sq) ==
  LET moves  == state.currentGameMoves
      played == squaresOf(moves)
  IN  /\ archivedCount(state) = 0
      /\ \/ includes(played, sq)
         \/ \E s \in StoreScripts : /\ Len(s) > Len(played)
                                    /\ SubSeq(s, 1, Len(played) + 1) = Append(played, sq)
         \/ directExplored(moves, sq)

\* A direct call explored, in the first game of the tab and whatever its
\* state: with the lowest free square or the square played last.
storeDirectExplored(state, sq) ==
  /\ archivedCount(state) = 0
  /\ directExplored(state.currentGameMoves, sq)

NextStore ==
  \/ Load
  \/ \E sq \in squareIds :
       /\ storeClickExplored(getState(localStorage), sq)
       /\ SquareClick(sq)
  \/ \E sq \in squareIds :
       /\ storeDirectExplored(getState(localStorage), sq)
       /\ DirectPlayerMove(sq)
  \/ archiveExplored(getState(localStorage)) /\ ResetClick
  \/ archiveExplored(getState(localStorage)) /\ NewRoundClick

\* One tab under its gestures and direct playerMove calls.
SpecStore == Init /\ [][NextStore]_vars

\* ----------------------------------------------- two tabs on one storage key
\* Each tab runs its own init() and Store on the same localStorage. A handler
\* runs to completion inside its tab, but nothing orders the storage reads and
\* writes of one tab against those of the other: a click handler is taken read
\* by read. Here rendered maps each tab to what its View shows.

Tabs == {1, 2}

\* A tab with no handler in progress.
idleTab == [pc |-> "idle", squareId |-> 0, stateClone |-> null,
            lastMove |-> null, storageEvent |-> FALSE, gameRead |-> null]

\* Both tabs loaded on a profile with nothing stored under the key.
InitTabs ==
  /\ localStorage = <<>>
  /\ rendered = [t \in Tabs |-> render(<<>>)]
  /\ gesture = "load"
  /\ entry = null
  /\ effects = <<>>
  /\ defaultObject = initialState
  /\ tabs = [t \in Tabs |-> idleTab]

\* bindPlayerMoveEvent handler in tab t, up to the call of playerMove: reads
\* store.game and returns if the square is taken.
TabClick(t, sq) ==
  /\ tabs[t].pc = "idle"
  /\ IF existingMove(game(localStorage).moves, sq)
     THEN UNCHANGED tabs
     ELSE tabs' = [tabs EXCEPT ![t].pc = "playerMove", ![t].squareId = sq]
  /\ UNCHANGED <<localStorage, rendered, gesture, entry, effects, defaultObject>>

\* playerMove in tab t: const stateClone = structuredClone(this.#getState()).
TabClone(t) ==
  /\ tabs[t].pc = "playerMove"
  /\ tabs' = [tabs EXCEPT ![t].pc = "cloned",
                          ![t].stateClone = structuredClone(getState(localStorage))]
  /\ UNCHANGED <<localStorage, rendered, gesture, entry, effects, defaultObject>>

\* playerMove in tab t: stateClone.currentGameMoves.push({squareId, player:
\* this.game.currentPlayer}), the getter reading storage again.
TabPush(t) ==
  /\ tabs[t].pc = "cloned"
  /\ LET move == [squareId |-> tabs[t].squareId,
                  player   |-> game(localStorage).currentPlayer]
     IN  tabs' = [tabs EXCEPT ![t].pc = "pushed",
                              ![t].stateClone.currentGameMoves = Append(@, move),
                              ![t].lastMove = move]
  /\ UNCHANGED <<localStorage, rendered, gesture, entry, effects, defaultObject>>

\* playerMove in tab t: this.#saveState(stateClone) up to and including
\* setItem (the prevState it reads first is not used for an object argument).
\* The write queues a storage event for the other tab.
TabSave(t) ==
  /\ tabs[t].pc = "pushed"
  /\ localStorage' = saveState(localStorage, tabs[t].stateClone)
  /\ tabs' = [u \in Tabs |->
               IF u = t
               THEN [tabs[t] EXCEPT !.pc = "saved", !.squareId = 0, !.stateClone = null]
               ELSE [tabs[u] EXCEPT !.storageEvent = TRUE]]
  /\ UNCHANGED <<rendered, gesture, entry, effects, defaultObject>>

\* #saveState in tab t: dispatchEvent("statechange"); the listener evaluates
\* store.game, its first argument to view.render.
TabListen(t) ==
  /\ tabs[t].pc = "saved"
  /\ tabs' = [tabs EXCEPT ![t].pc = "rendering",
                          ![t].gameRead = game(localStorage)]
  /\ UNCHANGED <<localStorage, rendered, gesture, entry, effects, defaultObject>>

\* The window "storage" listener of tab t, run between its own handlers: it
\* evaluates store.game, its first argument to view.render.
TabStorage(t) ==
  /\ tabs[t].pc = "idle"
  /\ tabs[t].storageEvent
  /\ tabs' = [tabs EXCEPT ![t].pc = "rendering",
                          ![t].storageEvent = FALSE,
                          ![t].gameRead = game(localStorage)]
  /\ UNCHANGED <<localStorage, rendered, gesture, entry, effects, defaultObject>>

\* Either listener of tab t: it evaluates store.stats and view.render shows
\* the game read before and these stats; the handler returns.
TabRender(t) ==
  /\ tabs[t].pc = "rendering"
  /\ rendered' = [rendered EXCEPT ![t] = [game  |-> tabs[t].gameRead,
                                         stats |-> stats(localStorage)]]
  /\ tabs' = [tabs EXCEPT ![t].pc = "idle", ![t].gameRead = null]
  /\ UNCHANGED <<localStorage, gesture, entry, effects, defaultObject>>

NextTabs ==
  \E t \in Tabs :
    \/ \E sq \in 1..TabSquares : TabClick(t, sq)
    \/ TabClone(t)
    \/ TabPush(t)
    \/ TabSave(t)
    \/ TabListen(t)
    \/ TabStorage(t)
    \/ TabRender(t)

\* Two tabs, their click handlers interleaved read by read and write by write.
SpecTabs == InitTabs /\ [][NextTabs]_vars

\* ------------------------------------------------------------ properties

\* The persisted state, its move log and its two histories.
State == getState(localStorage)

Moves == State.currentGameMoves

CurrentRoundGames == State.history.currentRoundGames

AllGames == State.history.allGames

\* The eight lines of the board, as sets of squares.
Lines ==
  { {1, 2, 3}, {4, 5, 6}, {7, 8, 9}, {1, 4, 7},
    {2, 5, 8}, {3, 6, 9}, {1, 5, 9}, {3, 5, 7} }

\* The squares that the player with this id holds in a move log.
occupiedBy(moves, id) ==
  { moves[i].squareId : i \in { j \in 1..Len(moves) : moves[j].player.id = id } }

\* The player with this id holds all three squares of some line.
hasLine(moves, id) == \E line \in Lines : line \subseteq occupiedBy(moves, id)

\* The record that archives a game view.
recordOf(g) == [moves |-> g.moves, status |-> g.status]

\* A handler that reads the game on entry ran last.
handlerRan == gesture \in {"click", "reset", "newRound"}

\* C1: in every state reached by square clicks, resets and new rounds in one
\* tab, currentGameMoves has at most 9 entries, every squareId is in 1..9 and
\* no two entries share a squareId.
MovesWithinBoard ==
  /\ Len(Moves) <= 9
  /\ \A i \in 1..Len(Moves) : Moves[i].squareId \in 1..9
  /\ \A i, j \in 1..Len(Moves) : i # j => Moves[i].squareId # Moves[j].squareId

\* C1 witness: the board is full and a further click has left the log alone.
ClickOnFullBoard ==
  /\ gesture = "click"
  /\ Len(Moves) = 9
  /\ entry.moves = Moves

\* C2: a square click that arrives while the game is complete leaves
\* currentGameMoves unchanged.
ClickOnCompleteGameIgnored ==
  (gesture = "click" /\ entry.status.isComplete) => Moves = entry.moves

\* C3: with n moves the current player is players[n mod 2], the move at
\* 0-based index i belongs to players[i mod 2], and a click that appends a move
\* appends one for the player whose turn it was before the append.
TurnAlternation ==
  /\ game(localStorage).currentPlayer = players[(Len(Moves) % 2) + 1]
  /\ \A i \in 1..Len(Moves) : Moves[i].player = players[((i - 1) % 2) + 1]
  /\ (gesture = "click" /\ Moves # entry.moves) =>
       /\ Len(Moves) = Len(entry.moves) + 1
       /\ SubSeq(Moves, 1, Len(entry.moves)) = entry.moves
       /\ Moves[Len(Moves)].player = entry.currentPlayer
       /\ entry.currentPlayer = players[(Len(entry.moves) % 2) + 1]

\* C3 witness: a click has appended a move of player 2 after one of player 1.
SecondPlayerMoved ==
  /\ gesture = "click"
  /\ Len(Moves) = Len(entry.moves) + 1
  /\ Len(Moves) >= 2
  /\ Moves[Len(Moves)].player = player2
  /\ Moves[Len(Moves) - 1].player = player1

\* C4: when exactly one player holds a full line the winner is that player,
\* and when neither does the winner is null.
WinnerDetection ==
  gesture = "load" =>
    LET w == rendered.game.status.winner
    IN  /\ (hasLine(Moves, 1) /\ ~hasLine(Moves, 2)) => w = player1
        /\ (hasLine(Moves, 2) /\ ~hasLine(Moves, 1)) => w = player2
        /\ (~hasLine(Moves, 1) /\ ~hasLine(Moves, 2)) => w = null

\* C4 witness: a rendered game in which only player 2 holds a line, the
\* anti-diagonal.
SecondPlayerWins ==
  /\ gesture = "load"
  /\ {3, 5, 7} \subseteq occupiedBy(Moves, 2)
  /\ ~hasLine(Moves, 1)
  /\ rendered.game.status.winner = player2

\* C5: isComplete is true exactly when a winner exists or there are 9 moves;
\* 9 moves without a line give isComplete and no winner, fewer than 9 moves
\* without a line give an incomplete game.
CompletionAndTie ==
  gesture = "load" =>
    LET status == rendered.game.status
        noLine == ~hasLine(Moves, 1) /\ ~hasLine(Moves, 2)
    IN  /\ status.isComplete <=> (status.winner # null \/ Len(Moves) = 9)
        /\ (Len(Moves) = 9 /\ noLine) => (status.isComplete /\ status.winner = null)
        /\ (Len(Moves) < 9 /\ noLine) => ~status.isComplete
        /\ ~noLine => status.isComplete

\* C5 witness: a rendered tie, nine moves and no line.
TieRendered ==
  /\ gesture = "load"
  /\ Len(Moves) = 9
  /\ ~hasLine(Moves, 1) /\ ~hasLine(Moves, 2)
  /\ rendered.game.status.isComplete

\* C6 as stated: a complete game stays complete under every operation but
\* reset and newRound, a click or a direct playerMove, and it is followed by
\* an incomplete game only through a reset or newRound that leaves
\* currentGameMoves empty.
CompleteUntilReset ==
  [][game(localStorage).status.isComplete =>
       \/ /\ gesture' \in {"click", "playerMove"}
          /\ game(localStorage').status.isComplete
       \/ /\ gesture' \in {"reset", "newRound"}
          /\ getState(localStorage').currentGameMoves = <<>>]_vars

\* Every square of the board holds a move.
fullBoard(moves) == { moves[i].squareId : i \in 1..Len(moves) } = squareIds

\* C6: a game with a winner keeps a winner and stays complete under every
\* operation but reset and newRound, a direct playerMove included. A game
\* complete without a winner (9 moves) stays complete while no move is
\* appended: on a full board every click is refused. A move appended to it,
\* by a direct playerMove or by a click on a square that repeated squares
\* have left free, makes a log of 10 moves that is complete only if that
\* move completes a line. A complete game is followed by an incomplete one
\* only through a reset or newRound that leaves currentGameMoves empty, or
\* through such a tenth move.
CompleteWhileWon ==
  [][LET pre      == game(localStorage)
         post     == game(localStorage')
         appended == /\ Len(post.moves) = Len(pre.moves) + 1
                     /\ SubSeq(post.moves, 1, Len(pre.moves)) = pre.moves
     IN  pre.status.isComplete =>
           \/ /\ gesture' \in {"click", "playerMove"}
              /\ pre.status.winner # null
              /\ post.status.winner # null
              /\ post.status.isComplete
           \/ /\ gesture' = "click"
              /\ pre.status.winner = null
              /\ localStorage' = localStorage
              /\ post.status.isComplete
           \/ /\ gesture' \in {"click", "playerMove"}
              /\ pre.status.winner = null
              /\ gesture' = "click" => ~fullBoard(pre.moves)
              /\ appended
              /\ Len(post.moves) > Cardinality(squareIds)
              /\ post.status.isComplete <=> post.status.winner # null
           \/ /\ gesture' \in {"reset", "newRound"}
              /\ getState(localStorage').currentGameMoves = <<>>]_vars

\* C6 witness: playerMove was called on a game player 1 had won, on a square
\* already taken, and the game is still complete.
DirectMoveOnWonGame ==
  /\ gesture = "playerMove"
  /\ entry.status.winner = player1
  /\ Len(Moves) = Len(entry.moves) + 1
  /\ existingMove(entry.moves, Moves[Len(Moves)].squareId)
  /\ game(localStorage).status.isComplete

\* A click appended a move to a complete game, which is still complete.
MovedAfterCompletion ==
  /\ gesture = "click"
  /\ entry.status.isComplete
  /\ Len(Moves) = Len(entry.moves) + 1
  /\ game(localStorage).status.isComplete

\* C7: reset on a complete game appends one record, the old moves with the
\* old status, to the end of currentRoundGames, leaves the earlier entries and
\* allGames as they were and empties currentGameMoves.
ResetArchives ==
  [][(gesture' = "reset" /\ game(localStorage).status.isComplete) =>
       LET pre  == getState(localStorage)
           post == getState(localStorage')
       IN  /\ Len(post.history.currentRoundGames)
                = Len(pre.history.currentRoundGames) + 1
           /\ post.history.currentRoundGames[Len(post.history.currentRoundGames)]
                = [moves |-> pre.currentGameMoves, status |-> game(localStorage).status]
           /\ SubSeq(post.history.currentRoundGames, 1,
                     Len(pre.history.currentRoundGames))
                = pre.history.currentRoundGames
           /\ post.history.allGames = pre.history.allGames
           /\ post.currentGameMoves = <<>>]_vars

\* C7 witness: a reset has archived a complete game behind an earlier record.
SecondGameArchived ==
  /\ gesture = "reset"
  /\ entry.status.isComplete
  /\ Len(CurrentRoundGames) = 2
  /\ CurrentRoundGames[2] = recordOf(entry)
  /\ CurrentRoundGames[1] # CurrentRoundGames[2]
  /\ Moves = <<>>

\* C8: reset on an incomplete game empties currentGameMoves and leaves
\* currentRoundGames, allGames and the stats unchanged.
ResetDiscards ==
  [][(gesture' = "reset" /\ ~game(localStorage).status.isComplete) =>
       /\ getState(localStorage').currentGameMoves = <<>>
       /\ getState(localStorage').history = getState(localStorage).history
       /\ stats(localStorage') = stats(localStorage)]_vars

\* C8 witness: a reset has discarded an unfinished game in a round with a win
\* on the scoreboard.
UnfinishedGameDiscarded ==
  /\ gesture = "reset"
  /\ ~entry.status.isComplete
  /\ Len(entry.moves) >= 3
  /\ Moves = <<>>
  /\ rendered.stats.playerWithStats[1].wins = 1

\* C9: newRound leaves in allGames the old allGames, then the old
\* currentRoundGames, then the record of the current game if it was complete,
\* and empties currentRoundGames; over any step the records of allGames
\* followed by currentRoundGames stay as they were or gain that one record.
NewRoundConserves ==
  [][LET pre     == getState(localStorage)
         post    == getState(localStorage')
         g       == game(localStorage)
         oldLog  == pre.history.allGames \o pre.history.currentRoundGames
         newLog  == post.history.allGames \o post.history.currentRoundGames
         current == IF g.status.isComplete THEN <<recordOf(g)>> ELSE <<>>
     IN  /\ gesture' = "newRound" =>
              /\ post.history.allGames = oldLog \o current
              /\ post.history.currentRoundGames = <<>>
         /\ newLog = oldLog \/ newLog = oldLog \o current]_vars

\* C9 witness: a newRound has moved a round's record and the finished current
\* game behind it into allGames.
RoundRolledOver ==
  /\ gesture = "newRound"
  /\ entry.status.isComplete
  /\ CurrentRoundGames = <<>>
  /\ Len(AllGames) = 2
  /\ AllGames[2] = recordOf(entry)
  /\ AllGames[1] # AllGames[2]

\* C10: every record in currentRoundGames and in allGames has
\* status.isComplete = true.
ArchivedGamesComplete ==
  /\ \A i \in 1..Len(CurrentRoundGames) : CurrentRoundGames[i].status.isComplete = TRUE
  /\ \A i \in 1..Len(AllGames) : AllGames[i].status.isComplete = TRUE

\* C10 witness: both histories hold a record.
BothHistoriesFilled ==
  /\ Len(CurrentRoundGames) >= 1
  /\ Len(AllGames) >= 1

\* The number of records of a history won by the player with this id.
wonBy(games, id) ==
  Cardinality({ k \in 1..Len(games) :
                  games[k].status.winner # null /\ games[k].status.winner.id = id })

\* The number of records of a history that nobody won.
tiedIn(games) ==
  Cardinality({ k \in 1..Len(games) : games[k].status.winner = null })

\* C11: after every operation wins of players[i] is the number of records in
\* currentRoundGames whose winner has that player's id and ties the number
\* whose winner is null; a reset of a game won by p raises p's wins by one and
\* nothing else, a reset of a tied game raises ties by one and nothing else.
StatsAggregation ==
  [][LET pre   == stats(localStorage)
         post  == stats(localStorage')
         games == getState(localStorage').history.currentRoundGames
         was   == game(localStorage).status
     IN  /\ \A i \in 1..2 : post.playerWithStats[i].wins = wonBy(games, players[i].id)
         /\ post.ties = tiedIn(games)
         /\ rendered'.stats = post
         /\ (gesture' = "reset" /\ was.isComplete) =>
              /\ \A i \in 1..2 :
                   post.playerWithStats[i].wins =
                     pre.playerWithStats[i].wins
                       + (IF was.winner = players[i] THEN 1 ELSE 0)
              /\ post.ties = pre.ties + (IF was.winner = null THEN 1 ELSE 0)]_vars

\* C11 witness: a reset has put a win of player 2 on a scoreboard that showed
\* one tie.
SecondPlayerWinCounted ==
  /\ gesture = "reset"
  /\ entry.status.winner = player2
  /\ rendered.stats.playerWithStats[1].wins = 0
  /\ rendered.stats.playerWithStats[2].wins = 1
  /\ rendered.stats.ties = 1

\* C12: right after newRound the stats show 0 wins for both players and 0
\* ties, and the current game is empty with players[0] to move.
NewRoundClearsScoreboard ==
  gesture = "newRound" =>
    LET st == stats(localStorage)
        g  == game(localStorage)
    IN  /\ st.playerWithStats[1].wins = 0
        /\ st.playerWithStats[2].wins = 0
        /\ st.ties = 0
        /\ g.moves = <<>>
        /\ g.currentPlayer = player1
        /\ ~g.status.isComplete
        /\ rendered = [game |-> g, stats |-> st]

\* C12 witness: a newRound has cleared a scoreboard that counted two games
\* when its reset was done.
ScoreboardCleared ==
  /\ gesture = "newRound"
  /\ Len(getState(effects[2].storage).history.currentRoundGames) = 2
  /\ rendered.stats.playerWithStats[1].wins = 0
  /\ rendered.stats.playerWithStats[2].wins = 0
  /\ rendered.stats.ties = 0

\* The storage contents that the statechange listeners read during the last
\* handler, in order.
listenerReads ==
  LET seen == SelectSeq(effects, LAMBDA fx : fx.kind = "statechange")
  IN  [k \in 1..Len(seen) |-> seen[k].storage]

\* C13: whenever a statechange listener runs, the persisted state it reads is
\* the final state of the operation that is executing (playerMove, reset or
\* newRound), never an intermediate one.
ListenerSeesFinalState ==
  \A k \in 1..Len(listenerReads) : listenerReads[k] = localStorage

\* C13, amended: a statechange listener reads the state written by the
\* #saveState call that dispatched it. That is the final state of playerMove
\* and of reset; in newRound the first listener run reads the state left by the
\* inner reset (the current game archived if complete, currentRoundGames not
\* yet moved to allGames) and the second reads the final state.
ListenerSeesOwnWrite ==
  [][LET fx   == effects'
         pre  == getState(localStorage)
         g    == game(localStorage)
     IN  /\ \A k \in 1..Len(fx) :
              fx[k].kind = "statechange" =>
                /\ k > 1
                /\ fx[k - 1].kind = "setItem"
                /\ fx[k].storage = fx[k - 1].storage
         /\ (gesture' \in {"click", "reset"} /\ fx # <<>>) =>
              /\ Len(fx) = 2
              /\ fx[2].kind = "statechange"
              /\ fx[2].storage = localStorage'
         /\ gesture' = "newRound" =>
              /\ Len(fx) = 4
              /\ fx[2].kind = "statechange" /\ fx[4].kind = "statechange"
              /\ getState(fx[2].storage) =
                   [currentGameMoves |-> <<>>,
                    history |->
                      [currentRoundGames |->
                         pre.history.currentRoundGames
                           \o (IF g.status.isComplete
                               THEN <<[moves |-> g.moves, status |-> g.status]>>
                               ELSE <<>>),
                       allGames |-> pre.history.allGames]]
              /\ fx[4].storage = localStorage']_vars

\* C13 witness: during a newRound the first listener run read a state with a
\* round of two games, which the final state no longer has.
IntermediateStateRead ==
  /\ gesture = "newRound"
  /\ Len(listenerReads) = 2
  /\ Len(getState(listenerReads[1]).history.currentRoundGames) = 2
  /\ listenerReads[1] # localStorage
  /\ listenerReads[2] = localStorage

\* The kinds of a sequence of effects.
kindsOf(fx) == [k \in 1..Len(fx) |-> fx[k].kind]

\* The text stored under the key is a whole root object.
fullRootWritten(storage) ==
  /\ storageKey \in DOMAIN storage
  /\ LET item == storage[storageKey]
     IN  /\ Len(item) = 2
         /\ item[1][1] = "currentGameMoves"
         /\ item[2][1] = "history"
         /\ Len(item[2][2]) = 2
         /\ item[2][2][1][1] = "currentRoundGames"
         /\ item[2][2][2][1] = "allGames"

\* C14: playerMove and reset each do one write of the full root object and
\* then one statechange notification; newRound does two writes, each followed
\* by one notification, the reset write first and the round rollover second; no
\* notification comes before its write, and the read accessors emit none.
NotificationProtocol ==
  [][LET fx  == effects'
         pre == getState(localStorage)
     IN  /\ \A k \in 1..Len(fx) : fullRootWritten(fx[k].storage)
         /\ gesture' = "load" => (fx = <<>> /\ localStorage' = localStorage)
         /\ gesture' = "click" =>
              IF getState(localStorage').currentGameMoves = pre.currentGameMoves
              THEN fx = <<>> /\ localStorage' = localStorage
              ELSE /\ kindsOf(fx) = <<"setItem", "statechange">>
                   /\ fx[1].storage = localStorage'
         /\ gesture' = "reset" =>
              /\ kindsOf(fx) = <<"setItem", "statechange">>
              /\ fx[1].storage = localStorage'
         /\ gesture' = "newRound" =>
              /\ kindsOf(fx) = <<"setItem", "statechange", "setItem", "statechange">>
              /\ getState(fx[1].storage).currentGameMoves = <<>>
              /\ getState(fx[1].storage).history.allGames = pre.history.allGames
              /\ Len(getState(fx[1].storage).history.currentRoundGames)
                   >= Len(pre.history.currentRoundGames)
              /\ fx[3].storage = localStorage'
              /\ getState(fx[3].storage).history.currentRoundGames = <<>>
              /\ getState(fx[3].storage).history.allGames =
                   pre.history.allGames
                     \o getState(fx[1].storage).history.currentRoundGames]_vars

\* C14 witness: a newRound on a finished game has written twice, first the
\* archived game in the round and then the round moved into allGames.
TwoWritesOfNewRound ==
  /\ gesture = "newRound"
  /\ entry.status.isComplete
  /\ Len(effects) = 4
  /\ effects[1].kind = "setItem" /\ effects[3].kind = "setItem"
  /\ Len(getState(effects[1].storage).history.currentRoundGames) = 1
  /\ Len(getState(effects[3].storage).history.allGames) = 1

\* C15: with two tabs on one key, the write that ends a playerMove stores
\* exactly the log that tab cloned plus its own move: whatever the other tab
\* wrote after the clone was taken is not merged in, and the write is never
\* refused, so an interleaving leaves only the later writer's move.
LastWriterWins ==
  [][\A t \in Tabs :
       (tabs[t].pc = "pushed" /\ tabs'[t].pc = "saved") =>
         /\ storageKey \in DOMAIN localStorage'
         /\ getState(localStorage') = tabs[t].stateClone
         /\ LET moves == getState(localStorage').currentGameMoves
            IN  /\ moves # <<>>
                /\ moves[Len(moves)] = tabs[t].lastMove
                /\ moves[Len(moves)].squareId = tabs[t].squareId]_vars

\* C15 witness: tab 1 has completed a playerMove on square 1 and tab 2 one on
\* square 2, and the stored log holds the move of tab 2 only.
LostUpdate ==
  /\ \A t \in Tabs : tabs[t].pc = "idle"
  /\ tabs[1].lastMove # null
  /\ tabs[2].lastMove # null
  /\ tabs[1].lastMove.squareId = 1
  /\ tabs[2].lastMove.squareId = 2
  /\ Moves = << tabs[2].lastMove >>

\* C20: with two tabs interleaving at the granularity of single storage reads
\* and writes, currentGameMoves never holds two moves with the same squareId
\* and never has more than 9 entries.
TabsKeepBoard ==
  /\ Len(Moves) <= 9
  /\ \A i, j \in 1..Len(Moves) : i # j => Moves[i].squareId # Moves[j].squareId

\* C16: no state reached by clicks on free squares, resets and new rounds has
\* both players holding a complete winning line each.
NoDoubleLine == ~(hasLine(Moves, player1.id) /\ hasLine(Moves, player2.id))

\* C19: in every state the wins of the two players and the ties add up to the
\* number of records in currentRoundGames, and the winner of every record is
\* null or one of the two configured players.
ScoreboardAccounting ==
  LET st == stats(localStorage)
  IN  /\ st.playerWithStats[1].wins + st.playerWithStats[2].wins + st.ties
           = Len(CurrentRoundGames)
      /\ \A k \in 1..Len(CurrentRoundGames) :
           \/ CurrentRoundGames[k].status.winner = null
           \/ CurrentRoundGames[k].status.winner \in {player1, player2}

\* C19 witness: the round holds two records, a game won by player 1 and a
\* tie, and the scoreboard counts one each.
RoundOfTwoCounted ==
  /\ Len(CurrentRoundGames) = 2
  /\ stats(localStorage).playerWithStats[1].wins = 1
  /\ stats(localStorage).playerWithStats[2].wins = 0
  /\ stats(localStorage).ties = 1

\* The view of an empty default state.
defaultView ==
  [game  |-> [moves |-> <<>>, currentPlayer |-> players[1],
              status |-> [isComplete |-> FALSE, winner |-> null]],
   stats |-> [playerWithStats |->
                [i \in 1..2 |->
                   [id |-> players[i].id, name |-> players[i].name,
                    iconClass |-> players[i].iconClass,
                    colorClass |-> players[i].colorClass, wins |-> 0]],
              ties |-> 0]]

\* C18: a step that only evaluates game and stats (the first render, a click
\* on a taken square) leaves localStorage alone and emits no notification;
\* the game a handler reads on entry equals the game read at the last render,
\* no write lying between them; with the key absent the reads give the empty
\* default; and the shared initialState object keeps its content through
\* every mutation.
ReadsArePure ==
  [][LET onlyReads ==
           \/ gesture' = "load"
           \/ /\ gesture' = "click"
              /\ getState(localStorage').currentGameMoves
                   = getState(localStorage).currentGameMoves
     IN  /\ onlyReads =>
              /\ localStorage' = localStorage
              /\ effects' = <<>>
              /\ rendered' = render(localStorage)
         /\ (gesture # "none" /\ gesture' # "load") =>
              /\ entry' = rendered.game
              /\ entry' = game(localStorage)
         /\ storageKey \notin DOMAIN localStorage' => rendered' = defaultView
         /\ defaultObject' = initialState
         /\ defaultObject' = getState(<<>>)]_vars

\* C18 witness: after moves were written, a click on a taken square has only
\* read: nothing written, nothing emitted, the view as it was and the
\* shared default still empty.
ReadOnlyClick ==
  /\ gesture = "click"
  /\ effects = <<>>
  /\ Len(Moves) >= 2
  /\ existingMove(entry.moves, 1)
  /\ rendered = render(localStorage)
  /\ defaultObject.currentGameMoves = <<>>

\* C17: a direct call of playerMove, whatever the square and whatever the
\* state of the game, appends exactly one move for the player whose turn the
\* getter reports, writes the state once and emits one notification after it.
PlayerMoveUnvalidated ==
  [][gesture' = "playerMove" =>
       LET pre  == getState(localStorage).currentGameMoves
           post == getState(localStorage').currentGameMoves
       IN  /\ \E sq \in squareIds :
                post = Append(pre, [squareId |-> sq,
                                    player   |-> game(localStorage).currentPlayer])
           /\ kindsOf(effects') = <<"setItem", "statechange">>
           /\ effects'[1].storage = localStorage'
           /\ effects'[2].storage = localStorage'
           /\ rendered'.game.moves = post]_vars

\* C17 witness: playerMove was called on a complete game of 9 moves with a
\* square that was taken, and the log now has 10 moves, written and notified.
TenthMoveAppended ==
  /\ gesture = "playerMove"
  /\ Len(entry.moves) = 9
  /\ entry.status.isComplete
  /\ Len(Moves) = 10
  /\ existingMove(entry.moves, Moves[10].squareId)
  /\ kindsOf(effects) = <<"setItem", "statechange">>

====
